---- MODULE Spec2Model ----
(***************************************************************************)
(* Model of reroute's Router (src/src/lib.rs): the builder operations      *)
(* add_route, add_not_found and finalize, and the hyper Handler            *)
(* implementation Router::handle.                                          *)
(*                                                                         *)
(* Strings (routes, request URIs, captured text) are sequences of          *)
(* one-character strings.  Vector indices are 1-based here and 0-based in  *)
(* the Rust source.  Option<T> is a record: None or Some(v).               *)
(*                                                                         *)
(* The regex crate is modelled on the fragment of its syntax the routes    *)
(* below use: literal characters, one unnested capturing group per         *)
(* alternative, top-level alternation, and an unclosed "[" (a syntax       *)
(* error, as in the test bad_regular_expression).  A regex is searched     *)
(* for anywhere in the haystack (leftmost match, first alternative first), *)
(* as Regex::captures and RegexSet::matches do.                            *)
(***************************************************************************)
EXTENDS Integers, Sequences, FiniteSets, TLC

\* Largest number of add_route calls in a behaviour.
MaxRoutes == 2

\* hyper::method::Method values the requests and registrations use.
Verbs == {"Get", "Post"}

\* Route patterns passed to add_route:  /a   /a(b)   /a|(b)   /[
Routes ==
    { <<"/", "a">>,
      <<"/", "a", "(", "b", ")">>,
      <<"/", "a", "|", "(", "b", ")">>,
      <<"/", "[">> }

\* Request URIs passed to handle:  /a   /ab   /b   /c
Uris ==
    { <<"/", "a">>, <<"/", "a", "b">>, <<"/", "b">>, <<"/", "c">> }

\* Functions passed to add_not_found.
NotFoundFns == {"custom_a", "custom_b"}

None == [some |-> FALSE]
Some(v) == [some |-> TRUE, val |-> v]

Min(S) == CHOOSE x \in S : \A y \in S : x <= y

----------------------------------------------------------------------------
\* The regex crate, as the router uses it.

\* Index of the first occurrence of c in s, 0 when there is none.
IndexOf(s, c) ==
    IF \E i \in 1..Len(s) : s[i] = c
    THEN Min({i \in 1..Len(s) : s[i] = c})
    ELSE 0

Count(s, c) == Cardinality({i \in 1..Len(s) : s[i] = c})

\* The top-level alternatives of a pattern, split at "|".
RECURSIVE SplitAlts(_)
SplitAlts(s) ==
    LET p == IndexOf(s, "|")
    IN  IF p = 0
        THEN <<s>>
        ELSE <<SubSeq(s, 1, p - 1)>> \o SplitAlts(SubSeq(s, p + 1, Len(s)))

\* An alternative parses when it opens no character class and its
\* parentheses are balanced.
AltOk(a) ==
    /\ Count(a, "[") = 0
    /\ \/ Count(a, "(") = 0 /\ Count(a, ")") = 0
       \/ /\ Count(a, "(") = 1
          /\ Count(a, ")") = 1
          /\ IndexOf(a, "(") < IndexOf(a, ")")

IsLiteral(c) == c \notin {"(", ")"}

\* A parsed alternative: the literal text it matches and, when it has a
\* group, the literal positions from..to that the group spans.
ParseAlt(a) ==
    [ lit  |-> SelectSeq(a, IsLiteral),
      grp  |-> IndexOf(a, "(") # 0,
      from |-> IndexOf(a, "("),
      to   |-> IndexOf(a, ")") - 2 ]

\* Regex::new(route): Ok(compiled regex) or Err.
Regex_new(route) ==
    LET alts == SplitAlts(route)
    IN  IF \A k \in 1..Len(alts) : AltOk(alts[k])
        THEN [ ok |-> TRUE,
               re |-> [ src  |-> route,
                        alts |-> [k \in 1..Len(alts) |-> ParseAlt(alts[k])] ] ]
        ELSE [ ok |-> FALSE ]

\* The alternatives of re whose literal text occurs in s at position pos.
AltsAt(re, s, pos) ==
    { k \in 1..Len(re.alts) :
        /\ pos + Len(re.alts[k].lit) - 1 <= Len(s)
        /\ SubSeq(s, pos, pos + Len(re.alts[k].lit) - 1) = re.alts[k].lit }

\* Positions of s where re matches.
MatchPositions(re, s) == { pos \in 1..(Len(s) + 1) : AltsAt(re, s, pos) # {} }

\* Regex::is_match(s): unanchored search.
Regex_is_match(re, s) == MatchPositions(re, s) # {}

\* Alternatives of re that carry a capturing group, in group-number order.
GroupAlts(re) ==
    LET HasGroup(k) == re.alts[k].grp
    IN  SelectSeq([k \in 1..Len(re.alts) |-> k], HasGroup)

\* Regex::captures(s): None when re does not match; otherwise Some of the
\* groups 0..n of the leftmost match, each an Option (a group of an
\* alternative that did not take part in the match is None).
Regex_captures(re, s) ==
    IF ~ Regex_is_match(re, s)
    THEN None
    ELSE LET pos  == Min(MatchPositions(re, s))
             k    == Min(AltsAt(re, s, pos))
             alt  == re.alts[k]
             ga   == GroupAlts(re)
             full == SubSeq(s, pos, pos + Len(alt.lit) - 1)
         IN  Some( <<Some(full)>> \o
                   [ g \in 1..Len(ga) |->
                       IF ga[g] = k
                       THEN Some(SubSeq(s, pos + alt.from - 1, pos + alt.to - 1))
                       ELSE None ] )

\* RegexSet::new(patterns): Ok(set) when every pattern compiles, else Err.
RegexSet_new(patterns) ==
    IF \A i \in 1..Len(patterns) : Regex_new(patterns[i]).ok
    THEN [ ok  |-> TRUE,
           set |-> [i \in 1..Len(patterns) |-> Regex_new(patterns[i]).re] ]
    ELSE [ ok |-> FALSE ]

\* RegexSet::matches(uri): the indices of the patterns of the set that match.
RegexSet_matches(set, uri) ==
    { i \in 1..Len(set) : Regex_is_match(set[i], uri) }

----------------------------------------------------------------------------
\* The Router.

VARIABLES
    not_found,      \* Option<NotFoundFn>
    routes,         \* Option<RegexSet>: the patterns of the set, in order
    route_list,     \* Vec<String>
    compiled_list,  \* Vec<Regex>
    route_map,      \* HashMap<RouteInfo, handler>, a function on its keys
    registered,     \* history: the add_route calls made, in order
    custom_nf,      \* history: the last function given to add_not_found
    last            \* the last operation called and what it returned

vars == << not_found, routes, route_list, compiled_list, route_map,
           registered, custom_nf, last >>

\* RouteInfo{route, verb}, the key of route_map.
RouteInfo(route, verb) == [route |-> route, verb |-> verb]

\* HashMap::insert: a later insert under an equal key replaces the value.
HashMap_insert(map, key, value) ==
    [ k \in DOMAIN map \cup {key} |-> IF k = key THEN value ELSE map[k] ]

\* Router::new()
Init ==
    /\ not_found = None
    /\ routes = None
    /\ route_list = << >>
    /\ compiled_list = << >>
    /\ route_map = << >>
    /\ registered = << >>
    /\ custom_nf = None
    /\ last = [op |-> "new"]

\* compiled_list after add_route(route): the compiled pattern is pushed only
\* when Regex::new succeeds.
push_compiled(list, route) ==
    IF Regex_new(route).ok THEN Append(list, Regex_new(route).re) ELSE list

\* Router::add_route(verb, route, handler); options, get, post, put, delete
\* and patch call it with their verb.  Each call boxes a handler of its own,
\* named here by the number of the call.
add_route ==
    /\ Len(route_list) < MaxRoutes
    /\ \E verb \in Verbs, route \in Routes :
          LET handler == Len(registered) + 1
          IN  /\ compiled_list' = push_compiled(compiled_list, route)
              /\ route_list' = Append(route_list, route)
              /\ route_map' = HashMap_insert(route_map, RouteInfo(route, verb), handler)
              /\ registered' = Append(registered,
                                      [verb |-> verb, route |-> route, handler |-> handler])
              /\ last' = [op |-> "add_route"]
    /\ UNCHANGED << not_found, routes, custom_nf >>

\* Router::add_not_found(not_found)
add_not_found ==
    /\ \E f \in NotFoundFns :
          /\ not_found' = Some(f)
          /\ custom_nf' = Some(f)
    /\ last' = [op |-> "add_not_found"]
    /\ UNCHANGED << routes, route_list, compiled_list, route_map, registered >>

\* Mutant of too_few_routes: the check the error's text describes ("Less than
\* 2 routes provided to the set").
too_few_routes_below_two(list) == Len(list) < 2

\* finalize's first check: there is no route.
too_few_routes(list) == Len(list) = 0

\* Mutant of install_not_found: the default replaces a handler the user added.
install_not_found_default_always(nf) == Some("default_not_found")

\* finalize's 404 handler: the user's when one was added, else the default.
install_not_found(nf) == IF nf.some THEN nf ELSE Some("default_not_found")

\* Router::finalize()
finalize ==
    /\ IF too_few_routes(route_list)
       THEN /\ last' = [op |-> "finalize", ret |-> "TooFewRoutes"]
            /\ UNCHANGED << not_found, routes >>
       ELSE /\ not_found' = install_not_found(not_found)
            /\ LET re_routes == RegexSet_new(route_list)
               IN  IF re_routes.ok
                   THEN /\ routes' = Some(re_routes.set)
                        /\ last' = [op |-> "finalize", ret |-> "Ok"]
                   ELSE /\ routes' = routes
                        /\ last' = [op |-> "finalize", ret |-> "BadSet"]
    /\ UNCHANGED << route_list, compiled_list, route_map, registered, custom_nf >>

\* Mutant of get_captures: group 0, the full match, is left out.
get_captures_groups_only(pattern, uri) ==
    LET caps == Regex_captures(pattern, uri)
    IN  IF ~ caps.some
        THEN [panic |-> FALSE, val |-> None]
        ELSE IF \E g \in 1..Len(caps.val) : ~ caps.val[g].some
             THEN [panic |-> TRUE]
             ELSE [ panic |-> FALSE,
                    val   |-> Some([g \in 1..(Len(caps.val) - 1) |-> caps.val[g + 1].val]) ]

\* get_captures(pattern, uri): every group of the match is unwrapped, so a
\* group that took no part in the match aborts the call.
get_captures(pattern, uri) ==
    LET caps == Regex_captures(pattern, uri)
    IN  IF ~ caps.some
        THEN [panic |-> FALSE, val |-> None]
        ELSE IF \E g \in 1..Len(caps.val) : ~ caps.val[g].some
             THEN [panic |-> TRUE]
             ELSE [ panic |-> FALSE,
                    val   |-> Some([g \in 1..Len(caps.val) |-> caps.val[g].val]) ]

\* Mutant of lookup_handler: the verb of the request is not part of the key.
lookup_handler_any_verb(map, route, verb) ==
    IF \E k \in DOMAIN map : k.route = route
    THEN Some(map[CHOOSE k \in DOMAIN map : k.route = route])
    ELSE None

\* self.route_map.get(&RouteInfo{route, verb})
lookup_handler(map, route, verb) ==
    IF RouteInfo(route, verb) \in DOMAIN map
    THEN Some(map[RouteInfo(route, verb)])
    ELSE None

\* matches.iter().next(): the lowest index that matched, if any.
first_match(set, uri) ==
    IF RegexSet_matches(set, uri) = {}
    THEN None
    ELSE Some(Min(RegexSet_matches(set, uri)))

\* What Router::handle does with a request: the handler it calls and the
\* arguments it gives it, or the unwrap or index that aborts it.  The I/O of
\* default_not_found and not_allowed on the response is not modelled.
Router_handle(verb, uri) ==
    IF ~ routes.some
    THEN [kind |-> "panic", at |-> "routes.unwrap"]
    ELSE
    LET index == first_match(routes.val, uri)
    IN  IF ~ index.some
        THEN IF not_found.some
             THEN [kind |-> "not_found", fn |-> not_found.val]
             ELSE [kind |-> "panic", at |-> "not_found.unwrap"]
        ELSE
        LET i == index.val
        IN  IF i > Len(route_list)
            THEN [kind |-> "panic", at |-> "route_list[i]"]
            ELSE
            LET handler == lookup_handler(route_map, route_list[i], verb)
            IN  IF ~ handler.some
                THEN [kind |-> "not_allowed"]
                ELSE IF i > Len(compiled_list)
                THEN [kind |-> "panic", at |-> "compiled_list[i]"]
                ELSE
                LET captures == get_captures(compiled_list[i], uri)
                IN  IF captures.panic
                    THEN [kind |-> "panic", at |-> "get_captures"]
                    ELSE [ kind     |-> "handler",
                           index    |-> i,
                           handler  |-> handler.val,
                           captures |-> captures.val ]

\* Router::handle(req, res), for a request with method verb and URI uri.
handle ==
    /\ \E verb \in Verbs, uri \in Uris :
          last' = [ op |-> "handle", verb |-> verb, uri |-> uri,
                    out |-> Router_handle(verb, uri) ]
    /\ UNCHANGED << not_found, routes, route_list, compiled_list, route_map,
                    registered, custom_nf >>

Next ==
    \/ add_route
    \/ add_not_found
    \/ finalize
    \/ handle

Spec == Init /\ [][Next]_vars

----------------------------------------------------------------------------
\* Vocabulary of the properties.

\* The registered pattern route compiles and matches uri, as the regex crate
\* matches: somewhere in uri.
MatchesPath(route, uri) ==
    /\ Regex_new(route).ok
    /\ Regex_is_match(Regex_new(route).re, uri)

\* The pattern route matches the whole of uri, as ^(?:route)$ would.
MatchesWholePath(route, uri) ==
    /\ Regex_new(route).ok
    /\ \E k \in 1..Len(Regex_new(route).re.alts) :
          Regex_new(route).re.alts[k].lit = uri

\* The registrations whose pattern matches uri.
Matching(uri) ==
    { k \in 1..Len(registered) : MatchesPath(registered[k].route, uri) }

\* The registrations whose pattern matches uri and whose verb is verb.
Candidates(verb, uri) ==
    { k \in Matching(uri) : registered[k].verb = verb }

\* The last finalize succeeded on the routes registered so far: the set was
\* built from route_list as it is now.
Finalized ==
    /\ routes.some
    /\ Len(routes.val) = Len(route_list)
    /\ \A i \in 1..Len(route_list) : routes.val[i].src = route_list[i]

\* handle was the last operation and it returned.
Dispatched == last.op = "handle" /\ last.out.kind # "panic"

\* The groups of re applied to uri, full match first, as strings.
GroupsOf(re, uri) ==
    LET caps == Regex_captures(re, uri)
    IN  [g \in 1..Len(caps.val) |-> caps.val[g].val]

\* C1: after registrations and a successful finalize, a request whose verb
\* and path some registration matches is dispatched, when handle returns, to
\* the handler of the lowest-index registration whose pattern matches the
\* path and whose verb is the request's.
C1_FirstRegisteredWins ==
    (Dispatched /\ Finalized /\ Candidates(last.verb, last.uri) # {})
        => /\ last.out.kind = "handler"
           /\ last.out.handler =
                 registered[Min(Candidates(last.verb, last.uri))].handler

\* C2: once finalize has succeeded, a request whose path matches a pattern
\* of the compiled set while no registration matching the path has the
\* request's verb gets the method-not-allowed response; no route handler
\* and no not-found handler is called.
C2_MethodNotAllowed ==
    ( /\ last.op = "handle"
      /\ routes.some
      /\ RegexSet_matches(routes.val, last.uri) # {}
      /\ Candidates(last.verb, last.uri) = {} )
        => last.out = [kind |-> "not_allowed"]

C2_Witness ==
    /\ last.op = "handle"
    /\ Finalized
    /\ Matching(last.uri) # {}
    /\ Candidates(last.verb, last.uri) = {}
    /\ last.out.kind = "not_allowed"

\* C3: once finalize has succeeded, a request whose path no registered
\* pattern matches is given to the not-found handler, the last one passed
\* to add_not_found if there is one and the default otherwise, whatever its
\* verb; the handler takes no captures.
C3_NotFound ==
    ( /\ last.op = "handle"
      /\ routes.some
      /\ Matching(last.uri) = {} )
        => last.out =
              [ kind |-> "not_found",
                fn   |-> IF custom_nf.some THEN custom_nf.val
                                           ELSE "default_not_found" ]

C3_Witness ==
    /\ last.op = "handle"
    /\ routes.some
    /\ Matching(last.uri) = {}
    /\ custom_nf.some
    /\ last.out.kind = "not_found"

C5_BadSetLeavesNoMatcher ==
    (last.op = "finalize" /\ last.ret = "BadSet") => ~ routes.some

C7_HandleNeverFails ==
    last.op = "handle"
        => last.out.kind \in {"handler", "not_found", "not_allowed"}

\* C8: once finalize has succeeded, add_route and add_not_found change the
\* outcome of handle for no request.
C8_ImmutableAfterFinalize ==
    [][ (routes.some /\ last'.op \in {"add_route", "add_not_found"})
          => \A verb \in Verbs, uri \in Uris :
                Router_handle(verb, uri)' = Router_handle(verb, uri) ]_vars

\* C9: after finalize a request is routed to a route only if the route's
\* pattern matches its whole path, and it gets the not-found handler when no
\* registered pattern matches its whole path.
C9_WholePathOnly ==
    (Dispatched /\ Finalized)
        => /\ last.out.kind = "handler"
              => MatchesWholePath(registered[last.out.handler].route, last.uri)
           /\ (\A k \in 1..Len(registered) :
                  ~ MatchesWholePath(registered[k].route, last.uri))
              => last.out.kind = "not_found"

\* C10: route_list, compiled_list and the patterns of the combined matcher,
\* once built, have the same length and hold the same routes in the same
\* order.
C10_IndexAlignment ==
    /\ Len(compiled_list) = Len(route_list)
    /\ \A i \in 1..Len(compiled_list) : compiled_list[i].src = route_list[i]
    /\ routes.some =>
          /\ Len(routes.val) = Len(route_list)
          /\ \A i \in 1..Len(routes.val) : routes.val[i].src = route_list[i]
====
